---- MODULE Spec2Model ----
(***************************************************************************)
(* NYC property sales utilities: the normalizer                            *)
(* (scripts/process_sales_data.py) and the fetcher                         *)
(* (scripts/download_data.py).                                             *)
(*                                                                         *)
(* Text is modelled as a sequence of one-character strings, so that        *)
(* trimming, whitespace collapsing and case folding are computed and not   *)
(* assumed.  A spreadsheet cell is a record [t, s]: t is "nan" (empty      *)
(* cell), "none" (a None the code stores), "num" (a number) or "str"       *)
(* (text), and s is the characters str(cell) yields.                       *)
(***************************************************************************)
EXTENDS Integers, Sequences, FiniteSets, TLC

VARIABLES
  raw_exists,      \* main: whether the directory data/raw exists
  listing,         \* main: os.listdir(raw_data_path), entries [name, file]
  all_files,       \* main: the workbooks listed in data/raw, in listing order
  pc,              \* main: "start", "processing", "aggregate", "done", "raised"
  all_dfs,         \* main: results of process_sales_file so far (tables or None)
  master_df,       \* main: the combined table, NoTable until concatenated
  output_written,  \* main: whether to_parquet wrote the output file
  log,             \* main: the conditions printed so far
  h_table,         \* find_header_row: the sheet being scanned
  h_result,        \* find_header_row: "pending", or the outcome
  c_columns,       \* clean_column_names: the raw labels of the table
  c_key,           \* clean_column_names: index in COLUMN_MAP of the key varied
  c_result,        \* clean_column_names: "pending", or the renamed labels
  f_next,          \* fetcher: number of (year, borough) pairs attempted
  f_stage,         \* fetcher: "request", "sleep", "report", "done", "raised"
  downloaded_count,\* fetcher: the success counter of the main loop
  attempted,       \* fetcher: the file names requested, in order
  sleeps,          \* fetcher: number of sleep(1) calls made
  saved,           \* fetcher: number of bodies written to data/raw
  got200,          \* fetcher: number of requests that answered 200 and were saved
  reported         \* fetcher: the final "n/total" report, <<>> until printed

normVars  == <<raw_exists, listing, all_files, pc, all_dfs, master_df, output_written, log>>
hdrVars   == <<h_table, h_result>>
cleanVars == <<c_columns, c_key, c_result>>
fetchVars == <<f_next, f_stage, downloaded_count, attempted, sleeps, saved,
               got200, reported>>
vars == <<normVars, hdrVars, cleanVars, fetchVars>>

----------------------------------------------------------------------------
(* Configuration tables of process_sales_data.py.                          *)

CANONICAL_COLUMNS ==
  << <<"b","o","r","o","u","g","h">>,
     <<"n","e","i","g","h","b","o","r","h","o","o","d">>,
     <<"b","u","i","l","d","i","n","g","_","c","l","a","s","s","_","c","a","t","e","g","o","r","y">>,
     <<"t","a","x","_","c","l","a","s","s","_","a","t","_","p","r","e","s","e","n","t">>,
     <<"b","l","o","c","k">>,
     <<"l","o","t">>,
     <<"e","a","s","e","m","e","n","t">>,
     <<"b","u","i","l","d","i","n","g","_","c","l","a","s","s","_","a","t","_","p","r","e","s","e","n","t">>,
     <<"a","d","d","r","e","s","s">>,
     <<"a","p","a","r","t","m","e","n","t","_","n","u","m","b","e","r">>,
     <<"z","i","p","_","c","o","d","e">>,
     <<"r","e","s","i","d","e","n","t","i","a","l","_","u","n","i","t","s">>,
     <<"c","o","m","m","e","r","c","i","a","l","_","u","n","i","t","s">>,
     <<"t","o","t","a","l","_","u","n","i","t","s">>,
     <<"l","a","n","d","_","s","q","u","a","r","e","_","f","e","e","t">>,
     <<"g","r","o","s","s","_","s","q","u","a","r","e","_","f","e","e","t">>,
     <<"y","e","a","r","_","b","u","i","l","t">>,
     <<"t","a","x","_","c","l","a","s","s","_","a","t","_","t","i","m","e","_","o","f","_","s","a","l","e">>,
     <<"b","u","i","l","d","i","n","g","_","c","l","a","s","s","_","a","t","_","t","i","m","e","_","o","f","_","s","a","l","e">>,
     <<"s","a","l","e","_","p","r","i","c","e">>,
     <<"s","a","l","e","_","d","a","t","e">> >>

COLUMN_MAP ==
  << << <<"b","o","r","o","u","g","h">>,
        <<"b","o","r","o","u","g","h">> >>,
     << <<"n","e","i","g","h","b","o","r","h","o","o","d">>,
        <<"n","e","i","g","h","b","o","r","h","o","o","d">> >>,
     << <<"b","u","i","l","d","i","n","g"," ","c","l","a","s","s"," ","c","a","t","e","g","o","r","y">>,
        <<"b","u","i","l","d","i","n","g","_","c","l","a","s","s","_","c","a","t","e","g","o","r","y">> >>,
     << <<"t","a","x"," ","c","l","a","s","s"," ","a","s"," ","o","f"," ","f","i","n","a","l"," ","r","o","l","l"," ","1","8","/","1","9">>,
        <<"t","a","x","_","c","l","a","s","s","_","a","t","_","p","r","e","s","e","n","t">> >>,
     << <<"t","a","x"," ","c","l","a","s","s"," ","a","t"," ","p","r","e","s","e","n","t">>,
        <<"t","a","x","_","c","l","a","s","s","_","a","t","_","p","r","e","s","e","n","t">> >>,
     << <<"b","l","o","c","k">>,
        <<"b","l","o","c","k">> >>,
     << <<"l","o","t">>,
        <<"l","o","t">> >>,
     << <<"e","a","s","e","-","m","e","n","t">>,
        <<"e","a","s","e","m","e","n","t">> >>,
     << <<"b","u","i","l","d","i","n","g"," ","c","l","a","s","s"," ","a","s"," ","o","f"," ","f","i","n","a","l"," ","r","o","l","l"," ","1","8","/","1","9">>,
        <<"b","u","i","l","d","i","n","g","_","c","l","a","s","s","_","a","t","_","p","r","e","s","e","n","t">> >>,
     << <<"b","u","i","l","d","i","n","g"," ","c","l","a","s","s"," ","a","t"," ","p","r","e","s","e","n","t">>,
        <<"b","u","i","l","d","i","n","g","_","c","l","a","s","s","_","a","t","_","p","r","e","s","e","n","t">> >>,
     << <<"a","d","d","r","e","s","s">>,
        <<"a","d","d","r","e","s","s">> >>,
     << <<"a","p","a","r","t","m","e","n","t"," ","n","u","m","b","e","r">>,
        <<"a","p","a","r","t","m","e","n","t","_","n","u","m","b","e","r">> >>,
     << <<"z","i","p"," ","c","o","d","e">>,
        <<"z","i","p","_","c","o","d","e">> >>,
     << <<"r","e","s","i","d","e","n","t","i","a","l"," ","u","n","i","t","s">>,
        <<"r","e","s","i","d","e","n","t","i","a","l","_","u","n","i","t","s">> >>,
     << <<"c","o","m","m","e","r","c","i","a","l"," ","u","n","i","t","s">>,
        <<"c","o","m","m","e","r","c","i","a","l","_","u","n","i","t","s">> >>,
     << <<"t","o","t","a","l"," ","u","n","i","t","s">>,
        <<"t","o","t","a","l","_","u","n","i","t","s">> >>,
     << <<"l","a","n","d"," ","s","q","u","a","r","e"," ","f","e","e","t">>,
        <<"l","a","n","d","_","s","q","u","a","r","e","_","f","e","e","t">> >>,
     << <<"g","r","o","s","s"," ","s","q","u","a","r","e"," ","f","e","e","t">>,
        <<"g","r","o","s","s","_","s","q","u","a","r","e","_","f","e","e","t">> >>,
     << <<"y","e","a","r"," ","b","u","i","l","t">>,
        <<"y","e","a","r","_","b","u","i","l","t">> >>,
     << <<"t","a","x"," ","c","l","a","s","s"," ","a","t"," ","t","i","m","e"," ","o","f"," ","s","a","l","e">>,
        <<"t","a","x","_","c","l","a","s","s","_","a","t","_","t","i","m","e","_","o","f","_","s","a","l","e">> >>,
     << <<"b","u","i","l","d","i","n","g"," ","c","l","a","s","s"," ","a","t"," ","t","i","m","e"," ","o","f"," ","s","a","l","e">>,
        <<"b","u","i","l","d","i","n","g","_","c","l","a","s","s","_","a","t","_","t","i","m","e","_","o","f","_","s","a","l","e">> >>,
     << <<"s","a","l","e"," ","p","r","i","c","e">>,
        <<"s","a","l","e","_","p","r","i","c","e">> >>,
     << <<"s","a","l","e"," ","d","a","t","e">>,
        <<"s","a","l","e","_","d","a","t","e">> >> >>

----------------------------------------------------------------------------
(* Python text primitives.                                                 *)

UpperChars == <<"A","B","C","D","E","F","G","H","I","J","K","L","M",
                "N","O","P","Q","R","S","T","U","V","W","X","Y","Z">>
LowerChars == <<"a","b","c","d","e","f","g","h","i","j","k","l","m",
                "n","o","p","q","r","s","t","u","v","w","x","y","z">>

\* str.isspace for the characters the model uses; also the class \s of re.
IsSpace(c) == c \in {" ", "\t", "\n"}

LowerChar(c) ==
  IF \E i \in 1..26 : UpperChars[i] = c
  THEN LowerChars[CHOOSE i \in 1..26 : UpperChars[i] = c]
  ELSE c

UpperChar(c) ==
  IF \E i \in 1..26 : LowerChars[i] = c
  THEN UpperChars[CHOOSE i \in 1..26 : LowerChars[i] = c]
  ELSE c

\* str.lower() and str.upper()
lower(s) == [i \in 1..Len(s) |-> LowerChar(s[i])]
upper(s) == [i \in 1..Len(s) |-> UpperChar(s[i])]

SetMin(S) == CHOOSE x \in S : \A y \in S : x <= y
SetMax(S) == CHOOSE x \in S : \A y \in S : x >= y

\* str.strip(): drop leading and trailing whitespace
strip(s) ==
  LET solid == {i \in 1..Len(s) : ~IsSpace(s[i])}
  IN  IF solid = {} THEN <<>> ELSE SubSeq(s, SetMin(solid), SetMax(solid))

\* re.sub(r'\s+', ' ', s): every maximal whitespace run becomes one space
RECURSIVE CollapseFrom(_, _)
CollapseFrom(s, i) ==
  IF i > Len(s) THEN <<>>
  ELSE IF IsSpace(s[i])
       THEN IF i > 1 /\ IsSpace(s[i-1])
            THEN CollapseFrom(s, i + 1)
            ELSE <<" ">> \o CollapseFrom(s, i + 1)
       ELSE <<s[i]>> \o CollapseFrom(s, i + 1)

re_sub_ws(s) == CollapseFrom(s, 1)

----------------------------------------------------------------------------
(* Cells.                                                                  *)

NaN      == [t |-> "nan",  s |-> <<"n","a","n">>]
NoneCell == [t |-> "none", s |-> <<"N","o","n","e">>]
Num(s)   == [t |-> "num",  s |-> s]
Str(s)   == [t |-> "str",  s |-> s]

\* pd.isna(cell)
IsMissing(cell) == cell.t \in {"nan", "none"}

\* str(cell)
CellStr(cell) == cell.s

----------------------------------------------------------------------------
(* Workbooks.  A readable workbook is a rectangular sheet, a sequence of   *)
(* rows of cells; an unreadable one makes pd.read_excel raise, a           *)
(* ValueError (format cannot be determined) or another exception           *)
(* (zipfile.BadZipFile, OSError).                                          *)

Sheet(rows)  == [kind |-> "sheet",  rows |-> rows, error |-> "none"]
Broken(exc)  == [kind |-> "broken", rows |-> <<>>, error |-> exc]

\* nrows=10 of the preview read
HEADER_SCAN_ROWS == 10

\* keyword='BOROUGH', the default
KEYWORD == <<"B","O","R","O","U","G","H">>

Returned(v) == [exc |-> "none", value |-> v]
Raised(e)   == [exc |-> e,      value |-> -1]

\* any(str(cell).strip().upper() == keyword for cell in row)
RowHasKeyword(row, keyword) ==
  \E j \in 1..Len(row) : upper(strip(CellStr(row[j]))) = keyword

\* A mutant of Preview: the whole sheet is scanned.
PreviewWholeSheet(rows) == rows

\* df_preview = pd.read_excel(file_path, header=None, nrows=10)
Preview(rows) ==
  SubSeq(rows, 1, IF Len(rows) < HEADER_SCAN_ROWS THEN Len(rows) ELSE HEADER_SCAN_ROWS)

\* find_header_row(file_path, keyword): the 0-based index of the first row
\* of the preview holding the keyword, or the exception raised.
find_header_row(file, keyword) ==
  IF file.kind = "broken" THEN Raised(file.error)
  ELSE LET df_preview == Preview(file.rows)
           hits == {i \in 1..Len(df_preview) : RowHasKeyword(df_preview[i], keyword)}
       IN  IF hits = {} THEN Raised("ValueError")
           ELSE Returned(SetMin(hits) - 1)

----------------------------------------------------------------------------
(* clean_column_names                                                      *)

\* A mutant of clean_name: whitespace runs are not collapsed.
clean_name_no_collapse(col) == lower(strip(col))

\* clean_name(col): re.sub(r'\s+', ' ', str(col)).strip().lower()
clean_name(col) == lower(strip(re_sub_ws(col)))

HasAlias(label, column_map) ==
  \E k \in 1..Len(column_map) : column_map[k][1] = label

\* one label under df.rename(columns=column_map)
RenameLabel(label, column_map) ==
  IF HasAlias(label, column_map)
  THEN column_map[CHOOSE k \in 1..Len(column_map) : column_map[k][1] = label][2]
  ELSE label

\* clean_column_names(df, column_map), on the labels of df
clean_column_names(columns, column_map) ==
  [j \in 1..Len(columns) |-> RenameLabel(clean_name(columns[j]), column_map)]

----------------------------------------------------------------------------
(* process_sales_file                                                      *)

\* numeric_cols of step 5, in the order the loop visits them
numeric_cols ==
  << <<"s","a","l","e","_","p","r","i","c","e">>,
     <<"g","r","o","s","s","_","s","q","u","a","r","e","_","f","e","e","t">>,
     <<"l","a","n","d","_","s","q","u","a","r","e","_","f","e","e","t">>,
     <<"r","e","s","i","d","e","n","t","i","a","l","_","u","n","i","t","s">>,
     <<"c","o","m","m","e","r","c","i","a","l","_","u","n","i","t","s">>,
     <<"t","o","t","a","l","_","u","n","i","t","s">>,
     <<"y","e","a","r","_","b","u","i","l","t">>,
     <<"z","i","p","_","c","o","d","e">>,
     <<"b","l","o","c","k">>,
     <<"l","o","t">> >>

COL_SALE_DATE == <<"s","a","l","e","_","d","a","t","e">>

COL_TAX_CLASS_AT_PRESENT == <<"t","a","x","_","c","l","a","s","s","_","a","t","_","p","r","e","s","e","n","t">>

COL_APARTMENT_NUMBER == <<"a","p","a","r","t","m","e","n","t","_","n","u","m","b","e","r">>


IsDigit(c) == c \in {"0","1","2","3","4","5","6","7","8","9"}

\* The data texts of the model are digit strings and "abc": of these
\* pd.to_numeric parses exactly the digit strings.
ParsesAsNumber(s) == Len(s) > 0 /\ \A i \in 1..Len(s) : IsDigit(s[i])

\* one value under pd.to_numeric(..., errors='coerce')
to_numeric(cell) ==
  CASE cell.t = "num" -> cell
    [] cell.t = "str" -> IF ParsesAsNumber(cell.s) THEN Num(cell.s) ELSE NaN
    [] OTHER          -> NaN

\* one value under pd.to_datetime(..., errors='coerce'): a number is taken
\* as an epoch offset; the data texts of the model are no dates and
\* become NaT
to_datetime(cell) ==
  CASE cell.t = "num"  -> [t |-> "date", s |-> cell.s]
    [] cell.t = "date" -> cell
    [] OTHER           -> NaN

Indices(n) == [j \in 1..n |-> j]

\* the positions of the columns of df labelled `name`, in column order
Positions(columns, name) ==
  LET Is(j) == columns[j] = name
  IN  SelectSeq(Indices(Len(columns)), Is)

\* Steps 4 and "keep only": for every canonical name in order, the source
\* columns carrying it (all of them, df[list] keeps duplicates), or one
\* back-filled column (src 0) when df has none.
RECURSIVE ProjectFrom(_, _)
ProjectFrom(columns, k) ==
  IF k > Len(CANONICAL_COLUMNS) THEN <<>>
  ELSE LET name == CANONICAL_COLUMNS[k]
           at   == Positions(columns, name)
           here == IF at = <<>>
                   THEN << [name |-> name, src |-> 0] >>
                   ELSE [n \in 1..Len(at) |-> [name |-> name, src |-> at[n]]]
       IN  here \o ProjectFrom(columns, k + 1)

\* A mutant of Project: the columns of df are kept as they are, after the
\* back-filled ones (the projection df[CANONICAL_COLUMNS] is forgotten).
ProjectKeepAll(columns) ==
  LET Extra(j) == \A k \in 1..Len(CANONICAL_COLUMNS) : columns[j] # CANONICAL_COLUMNS[k]
      extras   == SelectSeq(Indices(Len(columns)), Extra)
  IN  ProjectFrom(columns, 1)
        \o [n \in 1..Len(extras) |-> [name |-> columns[extras[n]], src |-> extras[n]]]

Project(columns) == ProjectFrom(columns, 1)

Occurrences(sel, name) == Cardinality({n \in 1..Len(sel) : sel[n].name = name})

IsNumericCol(name) == \E k \in 1..Len(numeric_cols) : numeric_cols[k] = name

\* Steps 5: the value of one cell of column `name` after type conversion
Coerce(name, cell) ==
  IF IsNumericCol(name) THEN to_numeric(cell)
  ELSE IF name = COL_SALE_DATE THEN to_datetime(cell)
  ELSE cell

\* A mutant of KeepRow: dropna(how='any').
KeepRowAny(cells) == \A n \in 1..Len(cells) : ~IsMissing(cells[n])

\* df.dropna(how='all'): a row stays unless every value is missing
KeepRow(cells) == \E n \in 1..Len(cells) : ~IsMissing(cells[n])

NoFrame(kind, exc) ==
  [kind |-> kind, exc |-> exc, columns |-> <<>>, src |-> <<>>, rows |-> <<>>]

\* process_sales_file(file_path): kind "df" with the table (src and src_row
\* record which source column and data row each value came from), kind
\* "none" for the None of a header that was not found, kind "raise" for an
\* exception that leaves the function.
process_sales_file(file) ==
  LET hdr == find_header_row(file, KEYWORD)
  IN
  IF hdr.exc = "ValueError" THEN NoFrame("none", "none")
  ELSE IF hdr.exc # "none" THEN NoFrame("raise", hdr.exc)
  ELSE
    LET header  == file.rows[hdr.value + 1]
        data    == SubSeq(file.rows, hdr.value + 2, Len(file.rows))
        labels  == [j \in 1..Len(header) |-> CellStr(header[j])]
        columns == clean_column_names(labels, COLUMN_MAP)
        sel     == Project(columns)
        Value(r, n) == IF sel[n].src = 0 THEN NoneCell ELSE data[r][sel[n].src]
        Cells(r) == [n \in 1..Len(sel) |-> Coerce(sel[n].name, Value(r, n))]
        Kept(r) == KeepRow(Cells(r))
        kept    == SelectSeq(Indices(Len(data)), Kept)
    IN
    IF \E k \in 1..Len(numeric_cols) : Occurrences(sel, numeric_cols[k]) > 1
    THEN NoFrame("raise", "TypeError")
    ELSE IF Occurrences(sel, COL_SALE_DATE) > 1
    THEN NoFrame("raise", "ValueError")
    ELSE [kind    |-> "df",
          exc     |-> "none",
          columns |-> [n \in 1..Len(sel) |-> sel[n].name],
          src     |-> [n \in 1..Len(sel) |-> sel[n].src],
          rows    |-> [n \in 1..Len(kept) |->
                         [src_row |-> kept[n], cells |-> Cells(kept[n])]]]

----------------------------------------------------------------------------
(* main                                                                    *)

endswith(s, suffix) ==
  Len(s) >= Len(suffix) /\ SubSeq(s, Len(s) - Len(suffix) + 1, Len(s)) = suffix

startswith(s, prefix) ==
  Len(s) >= Len(prefix) /\ SubSeq(s, 1, Len(prefix)) = prefix

\* f.endswith('.xlsx') and not f.startswith('~')
IsExcelFile(name) ==
  endswith(name, <<".","x","l","s","x">>) /\ ~startswith(name, <<"~">>)

NoTable == [made |-> FALSE, columns |-> <<>>, rows |-> <<>>]

\* the indices of the files whose result is a table (not None)
Frames(dfs) ==
  LET IsFrame(k) == dfs[k].kind = "df"
  IN  SelectSeq(Indices(Len(dfs)), IsFrame)

\* rows of the frames in list order, each frame's rows in its own order;
\* a row remembers the file (position in all_files) it came from
RECURSIVE ConcatRows(_, _, _)
ConcatRows(dfs, frames, n) ==
  IF n > Len(frames) THEN <<>>
  ELSE LET k == frames[n]
       IN  [r \in 1..Len(dfs[k].rows) |->
              [file    |-> k,
               src_row |-> dfs[k].rows[r].src_row,
               cells   |-> dfs[k].rows[r].cells]]
           \o ConcatRows(dfs, frames, n + 1)

\* pd.concat raises InvalidIndexError when the frames' column indexes
\* differ and one of them holds a label twice; frames whose indexes are
\* equal are stacked as they are.
ConcatRaises(dfs, frames) ==
  \E a, b \in 1..Len(frames) : dfs[frames[a]].columns # dfs[frames[b]].columns

\* pd.concat(all_dfs, ignore_index=True)
concat(dfs, frames) ==
  [made    |-> TRUE,
   columns |-> dfs[frames[1]].columns,
   rows    |-> ConcatRows(dfs, frames, 1)]

\* one value under Series.astype(str).  pandas before 3.0 applies str() to
\* every value, a missing one included ("None", "nan"); pandas 3.0 casts
\* to its string dtype and keeps a missing value missing.
astype_str(cell, keeps_na) ==
  IF keeps_na /\ IsMissing(cell) THEN cell ELSE Str(CellStr(cell))

\* master_df[c] = master_df[c].astype(str) for the two text-forced fields
ForceText(df, keeps_na) ==
  [df EXCEPT !.rows =
     [r \in 1..Len(df.rows) |->
        [df.rows[r] EXCEPT !.cells =
           [n \in 1..Len(df.columns) |->
              IF df.columns[n] \in {COL_TAX_CLASS_AT_PRESENT, COL_APARTMENT_NUMBER}
              THEN astype_str(df.rows[r].cells[n], keeps_na)
              ELSE df.rows[r].cells[n]]]]]

\* master_df.to_parquet raises on a column label held twice and on a
\* column mixing numbers and text.
ParquetRaises(df) ==
  \/ \E a, b \in 1..Len(df.columns) : a # b /\ df.columns[a] = df.columns[b]
  \/ \E n \in 1..Len(df.columns) :
       /\ \E r \in 1..Len(df.rows) : df.rows[r].cells[n].t = "num"
       /\ \E r \in 1..Len(df.rows) : df.rows[r].cells[n].t = "str"

Others == <<hdrVars, cleanVars, fetchVars>>

\* all_files = [... for f in os.listdir(raw_data_path) if ...] and the
\* "No Excel files found" return.  os.listdir raises FileNotFoundError
\* when data/raw does not exist (main creates data/processed only), and
\* the exception leaves main before anything is printed.
ListFiles ==
  /\ pc = "start"
  /\ IF ~raw_exists
     THEN /\ pc' = "raised"
          /\ UNCHANGED <<all_files, log>>
     ELSE LET Wanted(e) == IsExcelFile(e.name)
              found == SelectSeq(listing, Wanted)
          IN  /\ all_files' = [k \in 1..Len(found) |-> found[k].file]
              /\ IF found = <<>>
                 THEN /\ log' = Append(log, <<"no_excel_files", 0>>)
                      /\ pc' = "done"
                 ELSE /\ log' = log
                      /\ pc' = "processing"
  /\ UNCHANGED <<raw_exists, listing, all_dfs, master_df, output_written, Others>>

\* one element of [process_sales_file(f) for f in all_files]
ProcessFile ==
  /\ pc = "processing"
  /\ Len(all_dfs) < Len(all_files)
  /\ LET k == Len(all_dfs) + 1
         r == process_sales_file(all_files[k])
     IN  IF r.kind = "raise"
         THEN /\ pc' = "raised"
              /\ UNCHANGED <<all_dfs, log>>
         ELSE /\ pc' = pc
              /\ all_dfs' = Append(all_dfs, r)
              /\ log' = Append(log, IF r.kind = "none"
                                    THEN <<"could_not_process", k>>
                                    ELSE <<"found_rows", k>>)
  /\ UNCHANGED <<raw_exists, listing, all_files, master_df, output_written, Others>>

\* the rest of main: filter the None results, concatenate, force the two
\* text fields, write the output
Aggregate ==
  /\ pc = "processing"
  /\ Len(all_dfs) = Len(all_files)
  /\ \E keeps_na \in BOOLEAN :
       LET frames == Frames(all_dfs)
       IN  IF frames = <<>>
           THEN /\ log' = Append(log, <<"no_data_processed", 0>>)
                /\ pc' = "done"
                /\ UNCHANGED <<master_df, output_written>>
           ELSE IF ConcatRaises(all_dfs, frames)
           THEN /\ pc' = "raised"
                /\ UNCHANGED <<master_df, output_written, log>>
           ELSE LET df == ForceText(concat(all_dfs, frames), keeps_na)
                IN  /\ master_df' = df
                    /\ log' = log
                    /\ IF ParquetRaises(df)
                       THEN pc' = "raised" /\ output_written' = output_written
                       ELSE pc' = "done" /\ output_written' = TRUE
  /\ UNCHANGED <<raw_exists, listing, all_files, all_dfs, Others>>

NormNext == ListFiles \/ ProcessFile \/ Aggregate

----------------------------------------------------------------------------
(* Inputs of the normalizer.                                               *)

MaxFiles == 2   \* entries of the directory listing
MaxCols  == 2   \* columns of a generated sheet
MaxRows  == 1   \* data rows of a generated sheet

T_BOROUGH   == <<"B","O","R","O","U","G","H">>
T_Borough   == <<"B","o","r","o","u","g","h">>
T_Block     == <<"B","l","o","c","k">>
T_block     == <<"b","l","o","c","k">>
T_BLOCK_sp  == <<"B","L","O","C","K"," ">>
T_Lot       == <<"L","o","t">>
T_LOT       == <<"L","O","T">>
T_SalePrice == <<"S","a","l","e"," ","P","r","i","c","e">>
T_SALE_DATE == <<"S","A","L","E"," "," ","D","A","T","E">>
T_TAX_PRESENT == <<"T","A","X"," ","C","L","A","S","S"," ","A","T"," ","P","R","E","S","E","N","T">>
T_TAX_ROLL  == <<"T","A","X"," ","C","L","A","S","S"," ","A","S"," ","O","F"," ","F","I","N","A","L"," ","R","O","L","L"," ","1","8","/","1","9">>
T_APARTMENT == <<"A","P","A","R","T","M","E","N","T","\n","N","U","M","B","E","R">>
T_EASEMENT  == <<"E","A","S","E","M","E","N","T">>
T_Notes     == <<"N","o","t","e","s">>
T_NEIGHBORHOOD == <<"N","E","I","G","H","B","O","R","H","O","O","D">>
T_Title     == <<"N","Y","C"," ","R","o","l","l","i","n","g"," ","S","a","l","e","s">>

Seven == Num(<<"7">>)
Abc   == Str(<<"a","b","c">>)

XlsxName == <<"s","a","l","e","s",".","x","l","s","x">>
LockName == <<"~","$","s","a","l","e","s",".","x","l","s","x">>
TextName == <<"r","e","a","d","m","e",".","t","x","t">>

\* the header row of a sheet with the given labels
HeaderRow(labels) == [j \in 1..Len(labels) |-> Str(labels[j])]

\* a title row above the header: one text cell, the rest empty
TitleRow(w) == [j \in 1..w |-> IF j = 1 THEN Str(T_Title) ELSE NaN]

Fill(w, cell) == [j \in 1..w |-> cell]

SheetOf(titles, labels, data) ==
  Sheet([i \in 1..titles |-> TitleRow(Len(labels))] \o <<HeaderRow(labels)>> \o data)

\* Header layouts of the listing-level inputs: the two tables of the
\* end-to-end example, two labels of one file aliasing to one text field,
\* two labels differing in case and whitespace, a correctly spelled
\* "EASEMENT" beside a foreign column, labels with a newline and a double
\* space, and a sheet without the keyword.
HeaderLayouts ==
  { <<T_BOROUGH, T_Block, T_Lot>>,
    <<T_Borough, T_block, T_LOT, T_SalePrice>>,
    <<T_BOROUGH, T_TAX_PRESENT, T_TAX_ROLL>>,
    <<T_BOROUGH, T_Block, T_BLOCK_sp>>,
    <<T_BOROUGH, T_EASEMENT, T_Notes>>,
    <<T_BOROUGH, T_APARTMENT, T_SALE_DATE>>,
    <<T_NEIGHBORHOOD, T_SalePrice>> }

\* Data of the listing-level inputs, for a sheet of w columns
DataPatterns(w) ==
  { << Fill(w, Seven) >>,
    << Fill(w, NaN), Fill(w, Seven) >>,
    << Fill(w, Abc) >> }

Workbooks ==
  UNION { { SheetOf(0, h, d) : d \in DataPatterns(Len(h)) } : h \in HeaderLayouts }

WideFiles ==
  Workbooks
    \cup { SheetOf(1, <<T_BOROUGH, T_Block, T_Lot>>, << Fill(3, Seven) >>),
           SheetOf(HEADER_SCAN_ROWS, <<T_BOROUGH, T_Block, T_Lot>>, << Fill(3, Seven) >>),
           SheetOf(HEADER_SCAN_ROWS - 1, <<T_BOROUGH, T_Block, T_Lot>>, << Fill(3, Seven) >>),
           Broken("ValueError"), Broken("BadZipFile") }

WideEntries ==
  { [name |-> XlsxName, file |-> f] : f \in WideFiles }
    \cup { [name |-> LockName, file |-> Broken("ValueError")],
           [name |-> TextName, file |-> Broken("ValueError")] }

SeqsUpTo(S, n) == UNION { [1..m -> S] : m \in 0..n }

\* Generated sheets: a header of distinct labels, the keyword among them,
\* and any data over three kinds of cell (empty, a number, a text no
\* coercion accepts).
DeepLabels == { T_BOROUGH, T_SalePrice, T_SALE_DATE, T_EASEMENT, T_Notes }
DeepCells  == { NaN, Seven, Abc }

DeepHeaders(cols) ==
  { h \in UNION { [1..w -> DeepLabels] : w \in 1..cols } :
      /\ \A i, j \in 1..Len(h) : i # j => h[i] # h[j]
      /\ \E i \in 1..Len(h) : h[i] = T_BOROUGH }

\* the listing entry of a generated sheet
DeepEntry(h, d) == [name |-> XlsxName, file |-> SheetOf(0, h, d)]

HdrIdle ==
  /\ h_table = <<>>
  /\ h_result = Raised("pending")

CleanIdle ==
  /\ c_columns = <<>>
  /\ c_key = 0
  /\ c_result = [done |-> FALSE, columns |-> <<>>]

FetchIdle ==
  /\ f_next = 0
  /\ f_stage = "idle"
  /\ downloaded_count = 0
  /\ attempted = <<>>
  /\ sleeps = 0
  /\ saved = 0
  /\ got200 = 0
  /\ reported = <<>>

NormStart ==
  /\ all_files = <<>>
  /\ pc = "start"
  /\ all_dfs = <<>>
  /\ master_df = NoTable
  /\ output_written = FALSE
  /\ log = <<>>

\* the normalizer over a listing of up to MaxFiles entries, or without
\* the directory data/raw
Init ==
  /\ raw_exists \in BOOLEAN
  /\ listing \in (IF raw_exists THEN SeqsUpTo(WideEntries, MaxFiles) ELSE { <<>> })
  /\ NormStart /\ HdrIdle /\ CleanIdle /\ FetchIdle

Next == NormNext

Spec == Init /\ [][Next]_vars

\* the normalizer over one generated sheet
InitFile ==
  /\ raw_exists = TRUE
  /\ \/ listing = <<>>
     \/ \E h \in DeepHeaders(MaxCols) :
          \E d \in SeqsUpTo([1..Len(h) -> DeepCells], MaxRows) :
            listing = << DeepEntry(h, d) >>
  /\ NormStart /\ HdrIdle /\ CleanIdle /\ FetchIdle

SpecFile == InitFile /\ [][Next]_vars

----------------------------------------------------------------------------
(* find_header_row on its own.                                             *)

MaxTableRows == 12   \* rows of a scanned table; above the 10 rows previewed

T_borough_ws == <<" ","b","o","r","o","u","g","h","\n">>
T_BOROUGHS   == <<"B","O","R","O","U","G","H","S">>
T_BORO_UGH   == <<"B","O","R","O"," ","U","G","H">>

\* rows that are not the header, and rows that hold or nearly hold the keyword
PlainRow == << Str(T_Title), NaN >>
MarkedRows ==
  { << NaN, Str(T_BOROUGH) >>,
    << Str(T_borough_ws), Seven >>,
    << Str(T_Borough), Str(T_Block) >>,
    << Str(T_BOROUGHS), Str(T_BORO_UGH) >>,
    PlainRow }

\* tables of up to MaxTableRows rows with at most two marked rows
HeaderTables(most) ==
  UNION { { [i \in 1..n |-> IF i = p THEN a ELSE IF i = q THEN b ELSE PlainRow] :
              p \in 1..n, q \in 1..n, a \in MarkedRows, b \in MarkedRows } :
          n \in 1..most } \cup { <<>> }

InitHeader ==
  /\ h_table \in HeaderTables(MaxTableRows)
  /\ h_result = Raised("pending")
  /\ raw_exists = TRUE /\ listing = <<>> /\ NormStart /\ CleanIdle /\ FetchIdle

FindHeader ==
  /\ h_result.exc = "pending"
  /\ h_result' = find_header_row(Sheet(h_table), KEYWORD)
  /\ UNCHANGED <<h_table, normVars, cleanVars, fetchVars>>

SpecHeader == InitHeader /\ [][FindHeader]_vars

----------------------------------------------------------------------------
(* clean_column_names on its own: raw headers that differ from a key of    *)
(* the alias table in case and whitespace only.                            *)

MaxWs == 1   \* length of a leading or trailing whitespace run; an inner run has up to MaxWs + 1

WsChars    == {" ", "\n"}
Pads       == SeqsUpTo(WsChars, MaxWs)
InnerRuns  == SeqsUpTo(WsChars, MaxWs + 1) \ { <<>> }
CaseStyles == {"lower", "upper", "title", "alternate"}

Cased(key, style) ==
  [i \in 1..Len(key) |->
     CASE style = "upper"     -> UpperChar(key[i])
       [] style = "title"     -> IF i = 1 \/ key[i-1] = " " THEN UpperChar(key[i]) ELSE key[i]
       [] style = "alternate" -> IF i % 2 = 0 THEN UpperChar(key[i]) ELSE key[i]
       [] OTHER               -> key[i]]

RECURSIVE Spread(_, _, _)
Spread(s, run, i) ==
  IF i > Len(s) THEN <<>>
  ELSE (IF s[i] = " " THEN run ELSE <<s[i]>>) \o Spread(s, run, i + 1)

Variant(key, style, lead, run, trail) ==
  lead \o Spread(Cased(key, style), run, 1) \o trail

InitClean ==
  /\ c_key \in 1..Len(COLUMN_MAP)
  /\ \E style \in CaseStyles, lead \in Pads, run \in InnerRuns, trail \in Pads :
       c_columns = << Variant(COLUMN_MAP[c_key][1], style, lead, run, trail), T_Notes >>
  /\ c_result = [done |-> FALSE, columns |-> <<>>]
  /\ raw_exists = TRUE /\ listing = <<>> /\ NormStart /\ HdrIdle /\ FetchIdle

CleanColumns ==
  /\ ~c_result.done
  /\ c_result' = [done |-> TRUE, columns |-> clean_column_names(c_columns, COLUMN_MAP)]
  /\ UNCHANGED <<c_columns, c_key, normVars, hdrVars, fetchVars>>

SpecClean == InitClean /\ [][CleanColumns]_vars

----------------------------------------------------------------------------
(* The fetcher, download_data.py.                                          *)

FIRST_YEAR == 2018
STOP_YEAR  == 2025

\* YEARS = range(2018, 2025)
YEARS == [i \in 1..(STOP_YEAR - FIRST_YEAR) |-> FIRST_YEAR + i - 1]

BOROUGHS == <<"manhattan", "bronx", "brooklyn", "queens", "staten_island">>

\* total_files = len(YEARS) * len(BOROUGHS)
total_files == Len(YEARS) * Len(BOROUGHS)

\* the pair the nested loops reach at their n-th iteration (n from 1):
\* years outermost, boroughs innermost
PairAt(n) ==
  << YEARS[((n - 1) \div Len(BOROUGHS)) + 1], BOROUGHS[((n - 1) % Len(BOROUGHS)) + 1] >>

\* what requests.get can do: answer 200, answer another status, or raise a
\* RequestException
Outcomes == {"status_200", "status_other", "transport_error"}

\* A mutant of download_file: a non-200 answer is saved and counted too.
download_file_any_status(outcome) ==
  IF outcome \in {"status_200", "status_other"}
  THEN [returned |-> TRUE,  wrote |-> TRUE]
  ELSE [returned |-> FALSE, wrote |-> FALSE]

\* download_file(url, filepath): the value returned and whether the body
\* was written to filepath
download_file(outcome) ==
  IF outcome = "status_200"
  THEN [returned |-> TRUE,  wrote |-> TRUE]
  ELSE [returned |-> FALSE, wrote |-> FALSE]

InitFetch ==
  /\ f_next = 0
  /\ f_stage = "request"
  /\ downloaded_count = 0
  /\ attempted = <<>>
  /\ sleeps = 0
  /\ saved = 0
  /\ got200 = 0
  /\ reported = <<>>
  /\ raw_exists = TRUE /\ listing = <<>> /\ NormStart /\ HdrIdle /\ CleanIdle

\* the loop body up to the sleep: download_file and the counter
Request ==
  /\ f_stage = "request"
  /\ f_next < total_files
  /\ \E outcome \in Outcomes :
       LET pair == PairAt(f_next + 1)
           r    == download_file(outcome)
       IN  /\ attempted' = Append(attempted, pair)
           /\ saved' = IF r.wrote THEN saved + 1 ELSE saved
           /\ downloaded_count' = IF r.returned THEN downloaded_count + 1 ELSE downloaded_count
           /\ got200' = IF outcome = "status_200" THEN got200 + 1 ELSE got200
  /\ f_stage' = "sleep"
  /\ UNCHANGED <<f_next, sleeps, reported, normVars, hdrVars, cleanVars>>

\* sleep(1), then the next iteration or the end of the loops
Sleep ==
  /\ f_stage = "sleep"
  /\ sleeps' = sleeps + 1
  /\ f_next' = f_next + 1
  /\ f_stage' = IF f_next + 1 = total_files THEN "report" ELSE "request"
  /\ UNCHANGED <<downloaded_count, attempted, saved, got200, reported,
                 normVars, hdrVars, cleanVars>>

\* print(f"Download complete. {downloaded_count}/{total_files} ...")
Report ==
  /\ f_stage = "report"
  /\ reported' = <<downloaded_count, total_files>>
  /\ f_stage' = "done"
  /\ UNCHANGED <<f_next, downloaded_count, attempted, sleeps, saved, got200,
                 normVars, hdrVars, cleanVars>>

FetchNext == Request \/ Sleep \/ Report

SpecFetch == InitFetch /\ [][FetchNext]_vars

----------------------------------------------------------------------------
(* Properties.                                                             *)

IsCanonical(name) == \E k \in 1..Len(CANONICAL_COLUMNS) : CANONICAL_COLUMNS[k] = name

\* the raw labels of the header row process_sales_file loads
SourceLabels(file) ==
  LET header == file.rows[find_header_row(file, KEYWORD).value + 1]
  IN  [j \in 1..Len(header) |-> CellStr(header[j])]

\* the data rows below that header row
SourceData(file) ==
  SubSeq(file.rows, find_header_row(file, KEYWORD).value + 2, Len(file.rows))

InSeq(x, seq) == \E n \in 1..Len(seq) : seq[n] = x

\* C1: whenever main has built the combined dataset, its columns are the
\* 21 canonical names, each once, in canonical order.
C1_ExactlyCanonicalColumns ==
  master_df.made => master_df.columns = CANONICAL_COLUMNS

\* C2: in the dataset main writes, a row from a file that has no source
\* column for a canonical field is missing in that field.
C2_AbsentFieldIsMissing ==
  output_written =>
    \A r \in 1..Len(master_df.rows) : \A n \in 1..Len(master_df.columns) :
      all_dfs[master_df.rows[r].file].src[n] = 0
        => IsMissing(master_df.rows[r].cells[n])

\* text is the keyword up to surrounding whitespace and letter case
IsKeywordText(text) ==
  \E a \in 1..Len(text) :
    /\ a + Len(KEYWORD) - 1 <= Len(text)
    /\ \A k \in 1..Len(KEYWORD) : LowerChar(text[a + k - 1]) = LowerChar(KEYWORD[k])
    /\ \A i \in 1..Len(text) : (i < a \/ i > a + Len(KEYWORD) - 1) => IsSpace(text[i])

\* the 0-based indices, among the first ten rows, of rows holding the keyword
KeywordRows(table) ==
  { i \in 0..9 : /\ i < Len(table)
                 /\ \E j \in 1..Len(table[i + 1]) : IsKeywordText(CellStr(table[i + 1][j])) }

\* C3: find_header_row returns the smallest index in 0..9 of a row with a
\* cell equal to the keyword after trimming and case folding, and raises
\* the header-not-found error exactly when the first ten rows have none.
C3_FirstKeywordRowInWindow ==
  h_result.exc # "pending" =>
    IF KeywordRows(h_table) = {}
    THEN h_result = Raised("ValueError")
    ELSE h_result = Returned(SetMin(KeywordRows(h_table)))

\* C3 witness: the keyword first appears at row 10 and is not found.
C3_Witness ==
  /\ h_result = Raised("ValueError")
  /\ Len(h_table) > 10
  /\ \E j \in 1..Len(h_table[11]) : IsKeywordText(CellStr(h_table[11][j]))

\* C4: a raw header that differs from an alias key in case and whitespace
\* only is renamed to the canonical name the alias table gives the key.
C4_AliasVariantsCanonicalized ==
  c_result.done => c_result.columns[1] = COLUMN_MAP[c_key][2]

\* C4 witness: a variant of a key with inner whitespace, holding a newline
\* and capitals, has been renamed to a canonical name.
C4_Witness ==
  /\ c_result.done
  /\ \E i \in 1..Len(c_columns[1]) : c_columns[1][i] = "\n"
  /\ \E i \in 1..Len(c_columns[1]) : c_columns[1][i] \in {"T", "S"}
  /\ Len(c_columns[1]) > Len(COLUMN_MAP[c_key][1]) + 1
  /\ IsCanonical(c_result.columns[1])

\* the source columns, among the given raw labels, whose cleaned label has
\* no alias entry
Unaliased(labels) ==
  { j \in 1..Len(labels) : ~HasAlias(clean_name(labels[j]), COLUMN_MAP) }

\* C5 as claimed: every source column whose cleaned label has no alias
\* entry keeps that label and contributes no value to the returned table.
C5_UnaliasedColumnsDropped ==
  \A k \in 1..Len(all_dfs) :
    all_dfs[k].kind = "df" =>
      LET labels == SourceLabels(all_files[k])
          names  == clean_column_names(labels, COLUMN_MAP)
      IN  \A j \in Unaliased(labels) :
            /\ names[j] = clean_name(labels[j])
            /\ ~InSeq(j, all_dfs[k].src)

\* C5 amended: such a column keeps its cleaned label, and it is dropped
\* from the returned table unless that label is itself a canonical name,
\* in which case it is kept.
C5_UnaliasedDroppedUnlessCanonical ==
  \A k \in 1..Len(all_dfs) :
    all_dfs[k].kind = "df" =>
      LET labels == SourceLabels(all_files[k])
          names  == clean_column_names(labels, COLUMN_MAP)
      IN  \A j \in Unaliased(labels) :
            /\ names[j] = clean_name(labels[j])
            /\ InSeq(j, all_dfs[k].src) <=> IsCanonical(clean_name(labels[j]))

\* C5 witness: a table was returned with a row kept, for a sheet whose
\* "Notes" column holds a value in that row, and the column is gone.
C5_Witness ==
  /\ Len(all_dfs) = 1 /\ all_dfs[1].kind = "df"
  /\ \E j \in Unaliased(SourceLabels(all_files[1])) :
       /\ SourceLabels(all_files[1])[j] = T_Notes
       /\ ~InSeq(j, all_dfs[1].src)
       /\ \E n \in 1..Len(all_dfs[1].rows) :
            SourceData(all_files[1])[all_dfs[1].rows[n].src_row][j] = Abc

\* the data rows of file k that the returned table retains
Retained(k) == { all_dfs[k].rows[n].src_row : n \in 1..Len(all_dfs[k].rows) }

\* C6 as claimed: a data row is removed when every field is empty and
\* retained when some field is non-empty, whatever its column or value.
C6_RowsWithAnyValueRetained ==
  \A k \in 1..Len(all_dfs) :
    all_dfs[k].kind = "df" =>
      LET data == SourceData(all_files[k])
          kept == Retained(k)
      IN  \A r \in 1..Len(data) :
            r \in kept <=> \E j \in 1..Len(data[r]) : ~IsMissing(data[r][j])

\* the value survives the conversion its canonical column applies
SurvivesCoercion(name, cell) ==
  /\ ~IsMissing(cell)
  /\ IsNumericCol(name) => (cell.t = "num" \/ (cell.t = "str" /\ ParsesAsNumber(cell.s)))
  /\ name = COL_SALE_DATE => cell.t \in {"num", "date"}

\* C6 amended: a data row is retained exactly when some canonical column
\* of it holds a value that is non-missing after numeric and date coercion.
C6_RowsWithCanonicalValueRetained ==
  \A k \in 1..Len(all_dfs) :
    all_dfs[k].kind = "df" =>
      LET names == clean_column_names(SourceLabels(all_files[k]), COLUMN_MAP)
          data  == SourceData(all_files[k])
          kept  == Retained(k)
      IN  \A r \in 1..Len(data) :
            r \in kept
              <=> \E j \in 1..Len(names) :
                    /\ IsCanonical(names[j])
                    /\ SurvivesCoercion(names[j], data[r][j])

\* C6 witness: a table was returned without the data row whose only value
\* is a text in the sale price column.
C6_Witness ==
  /\ Len(all_dfs) = 1 /\ all_dfs[1].kind = "df"
  /\ SourceLabels(all_files[1]) = <<T_BOROUGH, T_SalePrice>>
  /\ SourceData(all_files[1]) = << <<NaN, Abc>> >>
  /\ all_dfs[1].rows = <<>>

\* C7: an exception never leaves main while a file is being processed,
\* and when main returns every file was processed and every skipped file
\* was logged.
C7_FileFailuresSkipped ==
  /\ pc = "raised" => Len(all_dfs) = Len(all_files)
  /\ pc = "done" =>
       /\ Len(all_dfs) = Len(all_files)
       /\ \A k \in 1..Len(all_dfs) :
            all_dfs[k].kind = "none" => InSeq(<<"could_not_process", k>>, log)

BoroughIndex(b) == CHOOSE i \in 1..Len(BOROUGHS) : BOROUGHS[i] = b

\* C8: the pairs attempted so far are distinct and in year-major order,
\* one sleep follows every attempt, the loop never ends early, and the
\* report gives the number of 200 answers saved, out of 35.
C8_FetcherLoop ==
  /\ \A m, n \in 1..Len(attempted) :
       m < n => \/ attempted[m][1] < attempted[n][1]
                \/ /\ attempted[m][1] = attempted[n][1]
                   /\ BoroughIndex(attempted[m][2]) < BoroughIndex(attempted[n][2])
  /\ sleeps = IF f_stage = "sleep" THEN Len(attempted) - 1 ELSE Len(attempted)
  /\ downloaded_count = got200 /\ saved = got200
  /\ f_stage \in {"report", "done"} =>
       /\ Len(attempted) = 35
       /\ \A y \in 2018..2024 : \A b \in 1..Len(BOROUGHS) :
            InSeq(<<y, BOROUGHS[b]>>, attempted)
  /\ f_stage = "done" => reported = <<got200, 35>>

\* C8 witness: the run ended after 35 attempts of which three answered 200.
C8_Witness ==
  /\ f_stage = "done"
  /\ Len(attempted) = 35 /\ sleeps = 35
  /\ got200 = 3
  /\ reported = <<3, 35>>

RECURSIVE RowsUpTo(_)
RowsUpTo(k) == IF k = 0 THEN 0 ELSE Len(all_dfs[k].rows) + RowsUpTo(k - 1)

\* C9: the dataset written holds the rows of the per-file tables, file by
\* file in processing order and in source order within a file, as many as
\* the files retained together, and a field that only one file has is
\* non-missing only in rows of that file.
C9_ConcatenationOfFileTables ==
  output_written =>
    /\ Len(master_df.rows) = RowsUpTo(Len(all_dfs))
    /\ \A a, b \in 1..Len(master_df.rows) :
         a < b => \/ master_df.rows[a].file < master_df.rows[b].file
                  \/ /\ master_df.rows[a].file = master_df.rows[b].file
                     /\ master_df.rows[a].src_row < master_df.rows[b].src_row
    /\ \A n \in 1..Len(master_df.columns) : \A k \in 1..Len(all_dfs) :
         (/\ all_dfs[k].kind = "df"
          /\ all_dfs[k].src[n] # 0
          /\ \A o \in 1..Len(all_dfs) :
               (o # k /\ all_dfs[o].kind = "df") => all_dfs[o].src[n] = 0)
         => \A r \in 1..Len(master_df.rows) :
              ~IsMissing(master_df.rows[r].cells[n]) => master_df.rows[r].file = k

\* C10: when main has ended, the output file was written exactly if some
\* file produced a table; with no workbook found, or every file skipped,
\* main reported it and returned without raising.
C10_OutputIffSomeTable ==
  pc \in {"done", "raised"} =>
    /\ output_written <=> \E k \in 1..Len(all_dfs) : all_dfs[k].kind = "df"
    /\ all_files = <<>> => (pc = "done" /\ InSeq(<<"no_excel_files", 0>>, log))
    /\ (all_files # <<>> /\ \A k \in 1..Len(all_files) :
          find_header_row(all_files[k], KEYWORD).exc = "ValueError")
         => (pc = "done" /\ InSeq(<<"no_data_processed", 0>>, log))

====
